---- MODULE Spec2Model ----
(***************************************************************************)
(* Model of sched/module/mod_sections.c: mod_loadshdrs, mod_sectname and   *)
(* mod_findsection working on one load session (struct mod_loadinfo_s).    *)
(*                                                                         *)
(* Scale.  Bytes are 0 (NUL), 1 and 2.  The 32-bit unsigned words of the   *)
(* target (Elf32_Off, Elf32_Word, size_t) are scaled to words modulo       *)
(* WordMod; every sum the code computes in a word is taken % WordMod.      *)
(* One Elf32_Shdr record is what the file holds per e_shentsize bytes of   *)
(* the section header table; its decoded fields are kept in fileshdr.      *)
(*                                                                         *)
(* Environment.  mod_read, kmm_malloc and mod_reallocbuffer are not part   *)
(* of the file modelled.  The reader delivers a range that lies in the     *)
(* file and does not touch badoff, and fails otherwise without storing     *)
(* anything; the allocators fail when the size asked exceeds memlimit.     *)
(* Both are fixed for a session, so a call repeated on an unchanged        *)
(* session meets the same device and the same heap.                        *)
(*                                                                         *)
(* Each call of mod_loadshdrs and of mod_findsection is one step.  The     *)
(* variables trace and resolved record what the call did on its way: the   *)
(* requests it made to the reader and the allocators, in order, and what   *)
(* each mod_sectname call returned and left in the buffer.                 *)
(***************************************************************************)
EXTENDS Integers, Sequences, FiniteSets, TLC

(* ------------------------------ bounds -------------------------------- *)

MaxFileLen == 3
MaxShnum == 2
MaxBuf == 7
MaxCalls == 2

(* -------------------------- program constants ------------------------- *)

NUL == 0
SHN_UNDEF == 0
WordMod == 32

Bytes == {NUL, 1, 2}
NULLPTR == <<>>
Junk == 9

VARIABLES
  filelen,    \* loadinfo->filelen
  filedata,   \* the bytes of the file, filedata[k] is the byte at offset k-1
  fileshdr,   \* the section header records the file holds at e_shoff
  ehdr,       \* loadinfo->ehdr: e_shoff, e_shentsize, e_shnum, e_shstrndx
  shdr,       \* loadinfo->shdr: NULLPTR or the array of records
  iobuffer,   \* loadinfo->iobuffer, Len(iobuffer) = loadinfo->buflen
  bufincr,    \* CONFIG_MODULE_BUFFERINCR
  memlimit,   \* largest block the heap can hand out
  badoff,     \* file offset the device cannot deliver, -1 when there is none
  pc,         \* "start", "idle" (headers loaded) or "failed" (load failed)
  sectname,   \* argument of the last mod_findsection call
  ret,        \* value returned by the last call
  trace,      \* what the last call asked of kmm_malloc, mod_read, mod_reallocbuffer
  resolved,   \* outcome of each mod_sectname call made by the last call
  prev,       \* argument, result and starting buffer size of the call before
  calls       \* number of mod_findsection calls made

vars == <<filelen, filedata, fileshdr, ehdr, shdr, iobuffer, bufincr, memlimit,
          badoff, pc, sectname, ret, trace, resolved, prev, calls>>

file == <<filelen, filedata, fileshdr, ehdr, bufincr, memlimit, badoff>>

(* ------------------------------ results ------------------------------- *)

\* A returned value: err is "OK" or the errno the code negates, msg the text
\* the code hands to serr() on that path, index the value of a successful
\* mod_findsection.
Result(err, msg, index) == [err |-> err, msg |-> msg, index |-> index]

OK == Result("OK", "", 0)
NoResult == Result("none", "", 0)

NoSections == Result("EINVAL", "No sections(?)", 0)
TruncatedFile == Result("ESPIPE", "Insufficent space in file for section header table", 0)
AllocationFailedShdr == Result("ENOMEM", "Failed to allocate the section header table", 0)
NoStringTable == Result("EINVAL", "No section header string table", 0)
UnexpectedEof == Result("EINVAL", "At end of file", 0)
NotFound == Result("ENOENT", "", 0)
Found(index) == Result("OK", "", index)
ReadFailed == Result("ReadFailed", "", 0)
AllocationFailed == Result("ENOMEM", "mod_reallocbuffer failed", 0)

\* ret < 0
Failed(r) == r.err # "OK"

(* ------------------------------ helpers ------------------------------- *)

W(x) == x % WordMod

Min(a, b) == IF a < b THEN a ELSE b

\* mod_read succeeds: the range lies in the file and the device delivers it.
ModReadOk(off, len) ==
  /\ off + len <= filelen
  /\ ~(badoff >= off /\ badoff < off + len)

\* mod_read: the len bytes of the file from offset off.
ModRead(off, len) == [k \in 1..len |-> filedata[off + k]]

\* kmm_malloc(size) != NULL
MallocOk(size) == size <= memlimit

\* mod_reallocbuffer succeeds in growing the buffer to newsize bytes.
ReallocOk(newsize) == newsize <= memlimit

\* mod_reallocbuffer: the buffer with increment more bytes, contents kept.
Realloc(buf, increment) == buf \o [k \in 1..increment |-> Junk]

\* memchr(buffer, '\0', readlen) != NULL
HasNul(bytes) == \E k \in 1..Len(bytes) : bytes[k] = NUL

\* Index of the first NUL of a sequence that has one.
FirstNul(buf) == CHOOSE k \in 1..Len(buf) : buf[k] = NUL /\ \A j \in 1..(k-1) : buf[j] # NUL

\* The C string that starts at buf[0]: the bytes before the first NUL.
CStr(buf) == IF HasNul(buf) THEN SubSeq(buf, 1, FirstNul(buf) - 1) ELSE buf

\* strcmp(a, b) == 0
StrEq(a, b) == a = b

\* Buffer after mod_read stored bytes at &buf[at].
Store(buf, at, bytes) ==
  [k \in 1..Len(buf) |->
     IF k > at /\ k <= at + Len(bytes) THEN bytes[k - at] ELSE buf[k]]

\* An entry of the trace.  op is "malloc", "read", "realloc" or "shstr"; off
\* and len the range asked of mod_read (len the size asked of the allocator);
\* at the buffer position the read stores to; cap the buffer size at that
\* moment; ok whether the call succeeded; nul whether the bytes read hold a
\* NUL.  A "shstr" entry is the access shdr[shstrndx] of mod_sectname: off
\* the index, len the number of records of the array, ok whether the index
\* lies in the array.
Ev(op, sect, off, len, at, cap, ok, nul) ==
  [op |-> op, sect |-> sect, off |-> off, len |-> len, at |-> at, cap |-> cap,
   ok |-> ok, nul |-> nul]

(* --------------------------- initial states --------------------------- *)

Shdr(name, off) == [sh_name |-> name, sh_offset |-> off]

\* Offsets a header field can carry: inside or just past the file, and the
\* two largest words.
FieldOffs(len) == (0..len) \cup {WordMod - 2, WordMod - 1}

\* CONFIG_MODULE_BUFFERSIZE and CONFIG_MODULE_BUFFERINCR of the builds modelled.
BufferConfigs == {<<1, 2>>, <<1, 3>>, <<2, 1>>}

\* The session as mod_initialize and mod_allocbuffer leave it: header read,
\* no section header array yet, a working buffer of CONFIG_MODULE_BUFFERSIZE
\* bytes that nothing has written yet.
InitSession ==
  /\ shdr = NULLPTR
  /\ pc = "start"
  /\ sectname = <<>>
  /\ ret = NoResult
  /\ trace = <<>>
  /\ resolved = <<>>
  /\ prev = [name |-> <<>>, res |-> NoResult, buflen |-> 0]
  /\ calls = 0

\* Files whose header geometry is arbitrary (untrusted); the file body is
\* all NUL and the records, where the table lies in the file, are zero.
InitGeometry ==
  /\ filelen \in 0..MaxFileLen
  /\ filedata = [k \in 1..filelen |-> NUL]
  /\ ehdr \in [e_shoff : FieldOffs(filelen), e_shentsize : 1..2,
               e_shnum : 0..MaxShnum, e_shstrndx : {SHN_UNDEF}]
  /\ fileshdr = [k \in 1..ehdr.e_shnum |-> Shdr(0, 0)]
  /\ iobuffer = <<Junk>>
  /\ bufincr = 1
  /\ memlimit \in {1, MaxBuf}
  /\ badoff \in -1..(filelen - 1)

\* Files whose section header table lies at the start of the file with one
\* byte per record and whose string table is section 1, at file offset 0; the
\* body and the name offsets are arbitrary (untrusted).
InitContents ==
  /\ filelen \in 2..MaxFileLen
  /\ filedata \in [1..filelen -> Bytes]
  /\ ehdr \in [e_shoff : {0}, e_shentsize : {1},
               e_shnum : 2..Min(MaxShnum, filelen), e_shstrndx : {1}]
  /\ fileshdr \in [1..ehdr.e_shnum -> {Shdr(n, 0) : n \in 0..filelen}]
  /\ \E cfg \in BufferConfigs :
       /\ iobuffer = [k \in 1..cfg[1] |-> Junk]
       /\ bufincr = cfg[2]
  /\ memlimit = MaxBuf
  /\ badoff = -1

\* File bodies of the exotic sessions: the strings <<1>> back to back, or no
\* NUL at all.
ExoticBodies(len) ==
  {[k \in 1..len |-> IF k % 2 = 0 THEN NUL ELSE 1], [k \in 1..len |-> 2]}

\* As InitContents, in one build, with one more thing wrong with the file or
\* the device: no string table, a string table index outside the table, a
\* string table offset at the top of the word range, or an offset the
\* device cannot deliver.
InitExotic ==
  /\ filelen \in 1..MaxFileLen
  /\ filedata \in ExoticBodies(filelen)
  /\ ehdr \in [e_shoff : {0}, e_shentsize : {1},
               e_shnum : 1..Min(MaxShnum, filelen), e_shstrndx : 0..MaxShnum]
  /\ ehdr.e_shstrndx <= ehdr.e_shnum
  /\ \E names \in [1..ehdr.e_shnum -> 0..filelen], stroff \in {0, WordMod - 1} :
       fileshdr = [k \in 1..ehdr.e_shnum |->
                     Shdr(names[k], IF k = ehdr.e_shstrndx + 1 THEN stroff ELSE 0)]
  /\ iobuffer = <<Junk, Junk>>
  /\ bufincr = 1
  /\ memlimit = MaxBuf
  /\ badoff \in -1..(filelen - 1)
  /\ LET wrong == {x \in {"strndx", "stroff", "badoff"} :
                     \/ x = "strndx" /\ ehdr.e_shstrndx \in {SHN_UNDEF, ehdr.e_shnum}
                     \/ x = "stroff" /\ \E k \in 1..ehdr.e_shnum : fileshdr[k].sh_offset # 0
                     \/ x = "badoff" /\ badoff # -1}
     IN  Cardinality(wrong) = 1

Init == InitSession /\ (InitGeometry \/ InitContents \/ InitExotic)

(* ---------------------------- mod_loadshdrs --------------------------- *)

\* A test for a header without sections that lets a count of zero through.
NoSectionsNever(shnum) == shnum < 0

\* The test for a header without sections.
NoSectionsTest(shnum) == shnum < 1

\* The size of the section header table, as the code computes it.
ShdrSize(h) == W(h.e_shentsize * h.e_shnum)

\* The test for a table that does not fit the file, as the code computes it.
TruncatedTest(h, len) == W(h.e_shoff + ShdrSize(h)) > len

\* loadinfo->shdr after a failed mod_read in a function that gave the block
\* back and cleared the pointer.
ShdrReleased(allocated) == NULLPTR

\* loadinfo->shdr after mod_read failed: the function returns the error and
\* leaves the pointer to the block it allocated where it stored it.
ShdrOnReadFailure(allocated) == allocated

LoadShdrs ==
  /\ pc = "start"
  /\ shdr = NULLPTR
  /\ LET shdrsize == ShdrSize(ehdr) IN
     IF NoSectionsTest(ehdr.e_shnum)
     THEN /\ ret' = NoSections
          /\ UNCHANGED shdr
          /\ trace' = <<>>
     ELSE IF TruncatedTest(ehdr, filelen)
     THEN /\ ret' = TruncatedFile
          /\ UNCHANGED shdr
          /\ trace' = <<>>
     ELSE IF ~MallocOk(shdrsize)
     THEN /\ ret' = AllocationFailedShdr
          /\ shdr' = NULLPTR
          /\ trace' = <<Ev("malloc", 0, 0, shdrsize, 0, 0, FALSE, FALSE)>>
     ELSE IF ~ModReadOk(ehdr.e_shoff, shdrsize)
     THEN /\ ret' = ReadFailed
          /\ shdr' = ShdrOnReadFailure([k \in 1..ehdr.e_shnum |-> Shdr(Junk, Junk)])
          /\ trace' = <<Ev("malloc", 0, 0, shdrsize, 0, 0, TRUE, FALSE),
                        Ev("read", 0, ehdr.e_shoff, shdrsize, 0, shdrsize, FALSE, FALSE)>>
     ELSE /\ ret' = OK
          /\ shdr' = fileshdr
          /\ trace' = <<Ev("malloc", 0, 0, shdrsize, 0, 0, TRUE, FALSE),
                        Ev("read", 0, ehdr.e_shoff, shdrsize, 0, shdrsize, TRUE, FALSE)>>
  /\ pc' = IF Failed(ret') THEN "failed" ELSE "idle"
  /\ UNCHANGED <<file, iobuffer, sectname, resolved, prev, calls>>

(* ----------------------------- mod_sectname --------------------------- *)

\* What mod_sectname leaves: the returned value, the buffer, the locals
\* offset and bytesread, the trace, and the number of times the buffer grew.
SnOut(r, buf, off, nread, tr, grown) ==
  [ret |-> r, iobuffer |-> buf, offset |-> off, bytesread |-> nread,
   trace |-> tr, grown |-> grown]

\* The file offset the loop hands to mod_read in a pass that has already
\* staged nread bytes of the name that starts at off.
ReadOffset(off, nread) == off

\* The number of bytes to read when the buffer ends at its first byte.
RoomWhole(buflen, nread) == buflen

\* The number of bytes to read: what is left of the buffer after the nread
\* bytes already staged.
Room(buflen, nread) == buflen - nread

\* A terminator test that leaves out the last byte read.
TerminatorReadShort(buf, at, readlen) ==
  \E k \in (at + 1)..(at + readlen - 1) : k <= Len(buf) /\ buf[k] = NUL

\* A terminator test that scans the buffer from its first to its last byte.
TerminatorReadWhole(buf, at, readlen) == HasNul(buf)

\* The terminator test: memchr over the readlen bytes stored at &buf[at].
TerminatorRead(buf, at, readlen) ==
  \E k \in (at + 1)..(at + readlen) : k <= Len(buf) /\ buf[k] = NUL

\* The loop of mod_sectname, for section sect.
RECURSIVE SectnameLoop(_, _, _, _, _, _)
SectnameLoop(sect, buf, off, nread, tr, grown) ==
  LET buflen == Len(buf)
      room == Room(buflen, nread)
      clip == W(off + room) > filelen
      readlen == IF clip THEN W(filelen - off) ELSE room
      from == ReadOffset(off, nread)
  IN
  IF clip /\ filelen <= off
  THEN SnOut(UnexpectedEof, buf, off, nread, tr, grown)
  ELSE IF ~ModReadOk(from, readlen)
  THEN SnOut(ReadFailed, buf, off, nread,
             Append(tr, Ev("read", sect, from, readlen, nread, buflen, FALSE, FALSE)), grown)
  ELSE
    LET bytes == ModRead(from, readlen)
        buf2 == Store(buf, nread, bytes)
        nread2 == nread + readlen
        tr2 == Append(tr, Ev("read", sect, from, readlen, nread, buflen, TRUE, HasNul(bytes)))
        newsize == buflen + bufincr
    IN
    IF TerminatorRead(buf2, nread, readlen)
    THEN SnOut(OK, buf2, off, nread2, tr2, grown)
    ELSE IF ~ReallocOk(newsize)
    THEN SnOut(AllocationFailed, buf2, off, nread2,
               Append(tr2, Ev("realloc", sect, 0, newsize, 0, buflen, FALSE, FALSE)), grown)
    ELSE SectnameLoop(sect, Realloc(buf2, bufincr), off, nread2,
                      Append(tr2, Ev("realloc", sect, 0, newsize, 0, buflen, TRUE, FALSE)),
                      grown + 1)

\* Values an out-of-bounds read of shdr[] can deliver for sh_offset.
WildOffsets == {0, 1, WordMod - 1}

\* A test for a file without string table that no index meets.
NoStrTabNever(shstrndx) == FALSE

\* The test for a file without section name string table.
NoStrTabTest(shstrndx) == shstrndx = SHN_UNDEF

\* mod_sectname for section sect; wild is what shdr[shstrndx].sh_offset
\* reads as when shstrndx lies outside the array.
Sectname(sect, buf, tr, wild) ==
  LET shstrndx == ehdr.e_shstrndx IN
  IF NoStrTabTest(shstrndx)
  THEN SnOut(NoStringTable, buf, 0, 0, tr, 0)
  ELSE LET shstr == IF shstrndx < Len(shdr) THEN shdr[shstrndx + 1] ELSE Shdr(wild, wild)
           off == W(shstr.sh_offset + shdr[sect + 1].sh_name)
           tr1 == Append(tr, Ev("shstr", sect, shstrndx, Len(shdr), 0, Len(buf),
                                shstrndx < Len(shdr), FALSE))
       IN  SectnameLoop(sect, buf, off, 0, tr1, 0)

(* --------------------------- mod_findsection -------------------------- *)

\* What one mod_sectname call of a search left behind; cap0 is the size of
\* the buffer when the call began.
Outcome(sn, cap0) ==
  [ret |-> sn.ret, iobuffer |-> sn.iobuffer, offset |-> sn.offset,
   bytesread |-> sn.bytesread, grown |-> sn.grown, cap0 |-> cap0]

\* A test of mod_sectname's return value that takes every return for success.
SectnameFailedNever(r) == FALSE

\* The test of mod_sectname's return value.
SectnameFailed(r) == r.err # "OK"

FsOut(r, buf, tr, rs) == [ret |-> r, iobuffer |-> buf, trace |-> tr, resolved |-> rs]

\* The loop of mod_findsection from index sect on.
RECURSIVE FindLoop(_, _, _, _, _, _)
FindLoop(sect, buf, tr, rs, name, wild) ==
  IF ~(sect < ehdr.e_shnum)
  THEN FsOut(NotFound, buf, tr, rs)
  ELSE LET sn == Sectname(sect, buf, tr, wild)
           rs2 == Append(rs, Outcome(sn, Len(buf)))
       IN  IF SectnameFailed(sn.ret)
           THEN FsOut(sn.ret, sn.iobuffer, sn.trace, rs2)
           ELSE IF StrEq(CStr(sn.iobuffer), name)
           THEN FsOut(Found(sect), sn.iobuffer, sn.trace, rs2)
           ELSE FindLoop(sect + 1, sn.iobuffer, sn.trace, rs2, name, wild)

\* Names a caller asks for.
Names == {<<1>>, <<1, 2>>}

\* A call of mod_findsection.  Callers look sections up only in a session
\* whose headers were loaded.
FindSection(name) ==
  /\ pc = "idle"
  /\ calls < MaxCalls
  /\ \E wild \in WildOffsets :
       /\ ehdr.e_shstrndx < Len(shdr) => wild = 0
       /\ \E out \in {FindLoop(0, iobuffer, <<>>, <<>>, name, wild)} :
          /\ ret' = out.ret
          /\ iobuffer' = out.iobuffer
          /\ trace' = out.trace
          /\ resolved' = out.resolved
  /\ calls' = calls + 1
  /\ sectname' = name
  /\ prev' = [name |-> sectname, res |-> ret, buflen |-> Len(iobuffer)]
  /\ UNCHANGED <<file, shdr, pc>>

Next ==
  \/ LoadShdrs
  \/ \E name \in Names : FindSection(name)

Spec == Init /\ [][Next]_vars

(* ======================= mod_loadshdrs: properties ==================== *)

\* mod_loadshdrs has returned.
Loaded == pc # "start"

\* The trace holds a call of the allocator, of the reader.
Allocates(tr) == \E k \in 1..Len(tr) : tr[k].op \in {"malloc", "realloc"}
Reads(tr) == \E k \in 1..Len(tr) : tr[k].op = "read"

\* C9: a header that declares less than one section makes mod_loadshdrs fail
\* with NoSections before the size check, the allocation and the read, and the
\* section header array stays unset; this also when the table it declares
\* would not fit the file.
C9_NoSectionsFirst ==
  (Loaded /\ ehdr.e_shnum < 1) =>
    /\ pc = "failed"
    /\ ret = NoSections
    /\ ~Allocates(trace)
    /\ ~Reads(trace)
    /\ shdr = NULLPTR

C9_Witness ==
  /\ pc = "failed"
  /\ ehdr.e_shnum = 0
  /\ ehdr.e_shoff > filelen
  /\ ret = NoSections

\* The size of the table a header declares, in the integers.
TableEnd(h) == h.e_shoff + h.e_shentsize * h.e_shnum

\* C8 as stated: whenever the declared table ends past the end of the file,
\* mod_loadshdrs fails with TruncatedFile and neither allocates nor reads.
C8_TruncatedNoRead ==
  (Loaded /\ ehdr.e_shnum >= 1 /\ TableEnd(ehdr) > filelen) =>
    /\ ret = TruncatedFile
    /\ ~Allocates(trace)
    /\ ~Reads(trace)

\* C7 as stated: after any failed mod_loadshdrs the section header array is
\* unset.  Stated for the headers whose table lies in the file, where the
\* word arithmetic of the size check is exact.
C7_FailedLeavesUnset ==
  (pc = "failed" /\ TableEnd(ehdr) <= filelen) => shdr = NULLPTR

\* C7 amended: after a mod_loadshdrs that failed with NoSections,
\* TruncatedFile or AllocationFailed the array is unset; after one that failed
\* with ReadFailed the session still holds the block allocated for the table;
\* the array holds the file's records only after a successful call.
C7_FailedLeavesUnsetUnlessRead ==
  /\ (pc = "failed" /\ ret \in {NoSections, TruncatedFile, AllocationFailedShdr})
       => shdr = NULLPTR
  /\ (pc = "failed" /\ ret = ReadFailed)
       => (shdr # NULLPTR /\ Len(shdr) = ehdr.e_shnum)
  /\ pc = "failed" => ret \in {NoSections, TruncatedFile, AllocationFailedShdr, ReadFailed}
  /\ pc = "idle" => (shdr = fileshdr /\ shdr # NULLPTR)

C7_Witness ==
  /\ pc = "failed"
  /\ TableEnd(ehdr) <= filelen
  /\ ret = ReadFailed
  /\ shdr # NULLPTR

(* ============ mod_sectname and mod_findsection: properties ============ *)

\* A mod_findsection call has returned.
Searched == pc = "idle" /\ calls > 0

\* The header names a string table that is a section of the table.
StrTabOk == ehdr.e_shstrndx # SHN_UNDEF /\ ehdr.e_shstrndx < ehdr.e_shnum

Sections == 0..(ehdr.e_shnum - 1)

\* File offset at which the name of section k starts, in the integers.
NameStart(k) == shdr[ehdr.e_shstrndx + 1].sh_offset + shdr[k + 1].sh_name

\* The name of section k has its NUL inside the file.
Terminated(k) == \E p \in (NameStart(k) + 1)..filelen : filedata[p] = NUL

\* Length and bytes of a terminated name.
NameLen(k) ==
  LET s == NameStart(k)
      p == CHOOSE q \in (s + 1)..filelen :
             filedata[q] = NUL /\ \A r \in (s + 1)..(q - 1) : filedata[r] # NUL
  IN  p - s - 1
NameOf(k) == SubSeq(filedata, NameStart(k) + 1, NameStart(k) + NameLen(k))

\* The sections that carry name n.
Carriers(n) == {k \in Sections : Terminated(k) /\ NameOf(k) = n}
Lowest(S) == CHOOSE k \in S : \A m \in S : k <= m

\* The heap is large enough for every growth a loop asks for while the bytes
\* it has staged lie in the file: growth "succeeds" in the sense of a loop
\* that the file length bounds.
Ample(cap0) ==
  memlimit >= (IF cap0 > filelen THEN cap0 ELSE filelen) + 2 * bufincr

\* C1 as stated: with a valid string table whose names are all terminated in
\* the file and a reader that delivers, looking up a name some section
\* carries returns the lowest index of a section carrying it, whatever the
\* length of the name.
C1_FindsLowestIndex ==
  (/\ Searched /\ StrTabOk /\ badoff = -1
   /\ \A k \in Sections : Terminated(k)
   /\ Carriers(sectname) # {})
    => ret = Found(Lowest(Carriers(sectname)))

\* C2 as stated: a second mod_findsection call with the name of the call
\* before it, on the same file and headers, returns what that call returned.
\* Stated for pairs of calls neither of which ran out of heap.
C2_Idempotent ==
  (/\ Searched /\ calls >= 2 /\ StrTabOk /\ prev.name = sectname
   /\ prev.res # AllocationFailed /\ ret # AllocationFailed)
    => ret = prev.res

\* C3 as stated: a name one byte longer than the buffer is when mod_sectname
\* begins, with an increment of at least 2, is resolved with exactly one
\* growth, and the buffer then starts with the bytes of the name and a NUL.
C3_OneGrowth ==
  (Searched /\ StrTabOk /\ badoff = -1 /\ bufincr >= 2) =>
    \A j \in 1..Len(resolved) :
      (Terminated(j - 1) /\ NameLen(j - 1) = resolved[j].cap0 + 1) =>
        /\ resolved[j].ret = OK
        /\ resolved[j].grown = 1
        /\ SubSeq(resolved[j].iobuffer, 1, NameLen(j - 1) + 1) = NameOf(j - 1) \o <<NUL>>

\* C4 as stated: a name with no NUL between its start and the end of the
\* file never resolves and fails with UnexpectedEof.  Stated for names that
\* start at or before the end of the file, a reader that delivers and a heap
\* that is ample.
C4_NoTerminatorIsEof ==
  (Searched /\ StrTabOk /\ badoff = -1) =>
    \A j \in 1..Len(resolved) :
      (~Terminated(j - 1) /\ NameStart(j - 1) <= filelen /\ Ample(resolved[j].cap0)) =>
        resolved[j].ret = UnexpectedEof

\* C5 as stated: the loop of mod_sectname ends, with success or with an
\* error, when growth succeeds.  The heap of the model is finite, so a loop
\* that does not end shows as a call that ends only because the heap ran out
\* although it was ample: no call ends that way.
C5_LoopEnds ==
  (Searched /\ StrTabOk) =>
    \A j \in 1..Len(resolved) :
      Ample(resolved[j].cap0) => resolved[j].ret # AllocationFailed

\* C10 as stated: a name whose NUL is the last byte of the file resolves
\* successfully (reader delivers, heap ample).
C10_TerminatorLastByte ==
  (Searched /\ StrTabOk /\ badoff = -1) =>
    \A j \in 1..Len(resolved) :
      (/\ Terminated(j - 1)
       /\ NameStart(j - 1) + NameLen(j - 1) = filelen - 1
       /\ Ample(resolved[j].cap0))
        => resolved[j].ret = OK

C11_FailureEndsSearch ==
  Searched =>
    \A j \in 1..Len(resolved) :
      Failed(resolved[j].ret) =>
        /\ j = Len(resolved)
        /\ ret = resolved[j].ret
        /\ \A k \in 1..Len(trace) :
             /\ trace[k].sect <= j - 1
             /\ (trace[k].op \in {"read", "realloc"} /\ ~trace[k].ok) => k = Len(trace)

C11_Witness ==
  /\ Searched
  /\ StrTabOk
  /\ ehdr.e_shnum = 2
  /\ Len(resolved) = 1
  /\ ret = ReadFailed
  /\ trace # <<>>
  /\ trace[Len(trace)].op = "read"
  /\ ~trace[Len(trace)].ok
  /\ trace[Len(trace)].sect = 0
  /\ Terminated(1)
  /\ NameOf(1) = sectname

\* C12: when e_shstrndx is SHN_UNDEF, a search fails with NoStringTable at
\* its first section, whatever the name: mod_sectname neither indexes the
\* section header array nor reads nor grows (the trace of the call is empty),
\* and the call leaves the length and the bytes of iobuffer as they were.
C12_NoStringTable ==
  /\ [](Searched /\ ehdr.e_shstrndx = SHN_UNDEF =>
          /\ ret = NoStringTable
          /\ trace = <<>>
          /\ Len(resolved) = 1
          /\ resolved[1].ret = NoStringTable
          /\ resolved[1].iobuffer = iobuffer)
  /\ [][pc = "idle" /\ ehdr.e_shstrndx = SHN_UNDEF => iobuffer' = iobuffer]_vars

C12_Witness ==
  /\ Searched
  /\ ehdr.e_shstrndx = SHN_UNDEF
  /\ ehdr.e_shnum = 2
  /\ calls = 2
  /\ prev.name # sectname
  /\ prev.res = NoStringTable
  /\ ret = NoStringTable
  /\ trace = <<>>

\* The reads mod_sectname issued for section k, as indices of the trace.
ReadsOf(k) == {i \in 1..Len(trace) : trace[i].op = "read" /\ trace[i].sect = k}

\* C13: within one mod_sectname call the reads are contiguous in the file:
\* each read starts at the name's offset plus the bytes already staged, and
\* when the call returns the staged bytes [0, bytesread) of the buffer are
\* the file's bytes from the name's offset on.
C13_ReadsContiguous ==
  (Searched /\ StrTabOk /\ badoff = -1) =>
    \A j \in 1..Len(resolved) :
      NameStart(j - 1) < filelen =>
        /\ \A i \in ReadsOf(j - 1) : trace[i].off = NameStart(j - 1) + trace[i].at
        /\ resolved[j].ret \in {OK, AllocationFailed} =>
             /\ NameStart(j - 1) + resolved[j].bytesread <= filelen
             /\ SubSeq(resolved[j].iobuffer, 1, resolved[j].bytesread)
                  = SubSeq(filedata, NameStart(j - 1) + 1,
                           NameStart(j - 1) + resolved[j].bytesread)

\* C14: every read mod_sectname issues lies in the file, offset < filelen
\* and offset + len <= filelen, and a call whose read offset is at or beyond
\* the end of the file fails with UnexpectedEof without a read.
C14_ReadsInFile ==
  (Searched /\ StrTabOk) =>
    \A j \in 1..Len(resolved) :
      /\ \A i \in ReadsOf(j - 1) :
           trace[i].off < filelen /\ trace[i].off + trace[i].len <= filelen
      /\ resolved[j].offset >= filelen =>
           resolved[j].ret = UnexpectedEof /\ ReadsOf(j - 1) = {}

\* C15: the truncation test of mod_loadshdrs is safe against overflow: a
\* header whose table end e_shoff + e_shentsize * e_shnum does not fit the
\* word (and so lies past every file) fails with TruncatedFile and no read.
\* Stated for the sessions whose heap holds the table and whose device does
\* not fail, where nothing but the test decides the result.
C15_OverflowSafe ==
  (Loaded /\ ehdr.e_shnum >= 1 /\ TableEnd(ehdr) >= WordMod
          /\ MallocOk(ShdrSize(ehdr)) /\ badoff = -1) =>
    (ret = TruncatedFile /\ ~Reads(trace))

\* C16: in one mod_sectname call the number of bytes staged never exceeds
\* what the file holds from the start of the name on, and so the number of
\* growths is bounded by the length of the file.
C16_FillBounded ==
  (Searched /\ StrTabOk) =>
    \A j \in 1..Len(resolved) :
      NameStart(j - 1) <= filelen =>
        /\ resolved[j].bytesread <= filelen - NameStart(j - 1)
        /\ resolved[j].grown <= filelen

\* The growths of the trace that succeeded, up to entry k.
RECURSIVE Growths(_)
Growths(k) ==
  IF k = 0 THEN 0
  ELSE Growths(k - 1) + (IF trace[k].op = "realloc" /\ trace[k].ok THEN 1 ELSE 0)

\* C17: the buffer never shrinks and changes by one increment per growth:
\* after a search its size is the size before the call plus one bufincr for
\* each growth that succeeded, every growth asks for the size at that moment
\* plus bufincr, and every growth comes right after a read of the same
\* section that succeeded and whose bytes hold no NUL.
C17_GrowthDiscipline ==
  /\ [](Searched =>
          /\ Len(iobuffer) = prev.buflen + bufincr * Growths(Len(trace))
          /\ \A k \in 1..Len(trace) :
               /\ trace[k].op \in {"read", "realloc"} =>
                    trace[k].cap = prev.buflen + bufincr * Growths(k - 1)
               /\ trace[k].op = "realloc" =>
                    /\ trace[k].len = trace[k].cap + bufincr
                    /\ k > 1
                    /\ trace[k - 1].op = "read"
                    /\ trace[k - 1].sect = trace[k].sect
                    /\ trace[k - 1].ok
                    /\ ~trace[k - 1].nul)
  /\ [][Len(iobuffer') >= Len(iobuffer)]_vars

C17_Witness ==
  /\ Searched
  /\ calls = 2
  /\ Growths(Len(trace)) >= 1
  /\ Len(iobuffer) > prev.buflen
  /\ prev.res.err = "OK"

\* C18: every read of mod_sectname stores inside the buffer: the position it
\* stores at plus the length it asks for is at most the size of the buffer
\* at that moment, and it asks for at least one byte.
C18_ReadsInBuffer ==
  Searched =>
    \A k \in 1..Len(trace) :
      trace[k].op = "read" =>
        /\ trace[k].at + trace[k].len <= trace[k].cap
        /\ trace[k].at >= 0
        /\ trace[k].len >= 1

C18_Witness ==
  /\ Searched
  /\ \E k \in 1..Len(trace), m \in 1..Len(trace) :
       /\ k < m
       /\ trace[k].op = "read" /\ trace[m].op = "read"
       /\ trace[k].sect = trace[m].sect
       /\ trace[m].at > 0
       /\ trace[m].len < trace[m].cap - trace[m].at

\* C19: whenever mod_sectname indexes the section header array with
\* e_shstrndx, the index is less than the number of records of the array
\* that mod_loadshdrs loaded.
C19_StrTabIndexInTable ==
  Searched =>
    \A k \in 1..Len(trace) :
      trace[k].op = "shstr" =>
        (trace[k].off < trace[k].len /\ trace[k].len = ehdr.e_shnum)

\* C20: whenever mod_sectname returns OK, the first NUL of the buffer lies
\* within the bytesread bytes staged by this call, which lie in the buffer
\* and were all stored by the reads of this call, one after the other from
\* position 0; the comparison of mod_findsection stops inside them.
C20_TerminatorStaged ==
  Searched =>
    \A j \in 1..Len(resolved) :
      resolved[j].ret = OK =>
        /\ resolved[j].bytesread <= Len(resolved[j].iobuffer)
        /\ \E p \in 1..resolved[j].bytesread : resolved[j].iobuffer[p] = NUL
        /\ \A i \in ReadsOf(j - 1) :
             /\ trace[i].ok
             /\ trace[i].at + trace[i].len <= resolved[j].bytesread
             /\ \/ trace[i].at = 0
                \/ \E m \in ReadsOf(j - 1) :
                     m < i /\ trace[m].at + trace[m].len = trace[i].at

C20_Witness ==
  /\ Searched
  /\ Len(resolved) = 2
  /\ resolved[1].ret = OK
  /\ resolved[2].ret = OK
  /\ resolved[2].bytesread < resolved[1].bytesread
  /\ resolved[2].bytesread < Len(resolved[2].iobuffer)
  /\ ret = Found(1)

====
